---- MODULE Spec2Model ----
(***************************************************************************)
(* Model of the blog's path resolver, src/utils/getPath.ts.                *)
(*                                                                         *)
(* A JavaScript string is modelled as a sequence of one-character strings, *)
(* so that split, join, slice and concatenation are computed as the code   *)
(* computes them.  The process is modelled as a sequence of getPath calls  *)
(* made under one process-wide base path (import.meta.env.BASE_URL).       *)
(***************************************************************************)
EXTENDS Integers, Sequences, FiniteSets

VARIABLES
    BASE_URL,   \* import.meta.env.BASE_URL, the process-wide base path
    last,       \* the most recent completed getPath call: <<>> or <<record>>
    prev        \* the call completed before it: <<>> or <<record>>

vars == <<BASE_URL, last, prev>>

(***************************************************************************)
(* Bounds and input sets                                                   *)
(***************************************************************************)
\* Longest id enumerated exhaustively over Alphabet.
MaxLen == 2

Alphabet == {"/", "a"}

\* Every string over Alphabet of length at most n.
Strs(n) == UNION {[1..k -> Alphabet] : k \in 0..n}

posts == <<"p", "o", "s", "t", "s">>
blog == <<"b", "l", "o", "g">>
post20240101 == <<"2", "0", "2", "4", "-", "0", "1", "-", "0", "1", "-", "p", "o", "s", "t">>
mySlug == <<"m", "y", "-", "s", "l", "u", "g">>
introducingRemoteSweAgents == <<"i", "n", "t", "r", "o", "d", "u", "c", "i", "n", "g", "-", "r", "e", "m", "o", "t", "e", "-", "s", "w", "e", "-", "a", "g", "e", "n", "t", "s">>
dir20250402 == <<"2", "0", "2", "5", "0", "4", "0", "2", "-", "i", "n", "t", "r", "o", "d", "u", "c", "i", "n", "g", "-", "r", "e", "m", "o", "t", "e", "-", "s", "w", "e", "-", "a", "g", "e", "n", "t", "s">>
dir20250518 == <<"2", "0", "2", "5", "0", "5", "1", "8", "-", "i", "n", "t", "r", "o", "d", "u", "c", "i", "n", "g", "-", "r", "e", "m", "o", "t", "e", "-", "s", "w", "e", "-", "a", "g", "e", "n", "t", "s">>
dir20240307 == <<"2", "0", "2", "4", "0", "3", "0", "7", "-", "b", "u", "i", "l", "d", "-", "s", "o", "c", "i", "-", "i", "n", "d", "e", "x", "-", "w", "i", "t", "h", "-", "a", "w", "s", "-", "c", "d", "k">>
buildSociIndexWithAwsCdk == <<"b", "u", "i", "l", "d", "-", "s", "o", "c", "i", "-", "i", "n", "d", "e", "x", "-", "w", "i", "t", "h", "-", "a", "w", "s", "-", "c", "d", "k">>
dir20240824 == <<"2", "0", "2", "4", "0", "8", "2", "4", "-", "d", "i", "s", "t", "r", "i", "b", "u", "t", "e", "d", "-", "l", "o", "c", "k", "-", "w", "i", "t", "h", "-", "s", "3">>
distributedLockWithS3 == <<"d", "i", "s", "t", "r", "i", "b", "u", "t", "e", "d", "-", "l", "o", "c", "k", "-", "w", "i", "t", "h", "-", "s", "3">>

(***************************************************************************)
(* The content store: the posts under src/data/blog, with the frontmatter  *)
(* fields the resolver's callers use.                                      *)
(***************************************************************************)
post20240307 == [dir |-> dir20240307, slug |-> buildSociIndexWithAwsCdk, draft |-> FALSE]

post20240824 == [dir |-> dir20240824, slug |-> distributedLockWithS3, draft |-> FALSE]

post20250402 == [dir |-> dir20250402, slug |-> introducingRemoteSweAgents, draft |-> FALSE]

post20250518 == [dir |-> dir20250518, slug |-> introducingRemoteSweAgents, draft |-> FALSE]

ContentStore == {post20240307, post20240824, post20250402, post20250518}

\* The id of a content item: its directory-like prefix followed by its slug.
ContentId(item) == item.dir \o <<"/">> \o item.slug

\* Base paths the site can be built with; SITE.base is 'blog/', which the
\* framework hands to the code as BASE_URL with a leading '/' and with or
\* without the trailing one.
BasePaths ==
    { <<>>, <<"/">>, blog, <<"/">> \o blog, <<"/">> \o blog \o <<"/">>,
      blog \o <<"/">>, <<"/">> \o blog \o <<"/", "/">> }

\* Ids outside the exhaustive range: the spec's scenarios, the content
\* store's ids, and ids that contain the base path or the section name.
ScenarioIds ==
    { mySlug, introducingRemoteSweAgents, posts, blog,
      <<"a", "/", "b", "/">> \o mySlug, post20240101 \o <<"/">> \o mySlug,
      <<"a", "/">> \o posts, <<"/">> \o blog, blog \o <<"/", "a">> }
    \cup { ContentId(item) : item \in ContentStore }

Ids == Strs(MaxLen) \cup ScenarioIds

\* Argument lists of a call: getPath(id), getPath(id, true), getPath(id, false).
ArgLists == { <<id>> : id \in Ids } \cup (Ids \X BOOLEAN)

(***************************************************************************)
(* JavaScript string and array primitives used by the code                 *)
(***************************************************************************)
\* A split that drops empty segments, as segments.filter(Boolean) would.
RECURSIVE splitDropEmpty(_, _)
splitDropEmpty(s, sep) ==
    IF \E i \in 1..Len(s) : s[i] = sep
    THEN LET i == CHOOSE k \in 1..Len(s) :
                      /\ s[k] = sep
                      /\ \A j \in 1..(k - 1) : s[j] # sep
             head == IF i = 1 THEN <<>> ELSE <<SubSeq(s, 1, i - 1)>>
         IN  head \o splitDropEmpty(SubSeq(s, i + 1, Len(s)), sep)
    ELSE IF s = <<>> THEN <<>> ELSE <<s>>

\* String.prototype.split(sep) for a one-character separator.
RECURSIVE split(_, _)
split(s, sep) ==
    IF \E i \in 1..Len(s) : s[i] = sep
    THEN LET i == CHOOSE k \in 1..Len(s) :
                      /\ s[k] = sep
                      /\ \A j \in 1..(k - 1) : s[j] # sep
         IN  <<SubSeq(s, 1, i - 1)>> \o split(SubSeq(s, i + 1, Len(s)), sep)
    ELSE <<s>>

\* slice(0, 1) in place of slice(-1): the first segment is kept.
sliceFirst(arr) == IF Len(arr) = 0 THEN <<>> ELSE <<arr[1]>>

\* Array.prototype.slice(-1): the last element as an array, [] for [].
sliceLast(arr) == IF Len(arr) = 0 THEN <<>> ELSE <<arr[Len(arr)]>>

\* Array.prototype.join(sep) on an array of strings.
RECURSIVE join(_, _)
join(arr, sep) ==
    IF Len(arr) = 0 THEN <<>>
    ELSE IF Len(arr) = 1 THEN arr[1]
    ELSE arr[1] \o sep \o join(Tail(arr), sep)

\* Array.prototype.toString(), applied by join to an element that is an array.
arrayToString(arr) == join(arr, <<",">>)

(***************************************************************************)
(* joinPaths of astro/dist/core/path (@astrojs/internal-helpers/path):     *)
(*   paths.filter(isString).map((path, i) =>                               *)
(*       i === 0 ? removeTrailingForwardSlash(path)                        *)
(*     : i === paths.length - 1 ? removeLeadingForwardSlash(path)          *)
(*     : trimSlashes(path)).join("/")                                      *)
(***************************************************************************)
removeTrailingForwardSlash(path) ==
    IF Len(path) > 0 /\ path[Len(path)] = "/"
    THEN SubSeq(path, 1, Len(path) - 1) ELSE path

removeLeadingForwardSlash(path) ==
    IF Len(path) > 0 /\ path[1] = "/" THEN Tail(path) ELSE path

\* path.replace(/^\/|\/$/g, "")
trimSlashes(path) == removeTrailingForwardSlash(removeLeadingForwardSlash(path))

joinPaths(paths) ==
    join([i \in 1..Len(paths) |->
             IF i = 1 THEN removeTrailingForwardSlash(paths[i])
             ELSE IF i = Len(paths) THEN removeLeadingForwardSlash(paths[i])
             ELSE trimSlashes(paths[i])],
         <<"/">>)

(***************************************************************************)
(* getPath                                                                 *)
(***************************************************************************)
\* `${BASE_URL}/posts` in place of joinPaths(BASE_URL, "posts").
getPathConcatBase(id, includeBase) ==
    LET basePath == IF includeBase THEN BASE_URL \o <<"/">> \o posts ELSE <<>>
        blogId == split(id, "/")
        slug == IF Len(blogId) > 0 THEN sliceLast(blogId) ELSE blogId
    IN  join(<<basePath, arrayToString(slug)>>, <<"/">>) \o <<"/">>

\* includeBase ignored: the base path and "posts" are always prefixed.
getPathAlwaysBase(id, includeBase) ==
    LET basePath == joinPaths(<<BASE_URL, posts>>)
        blogId == split(id, "/")
        slug == IF Len(blogId) > 0 THEN sliceLast(blogId) ELSE blogId
    IN  join(<<basePath, arrayToString(slug)>>, <<"/">>) \o <<"/">>

\* A leading separator forced in front of the base path.
getPathLeadingSep(id, includeBase) ==
    LET basePath == IF includeBase
                    THEN <<"/">> \o removeLeadingForwardSlash(joinPaths(<<BASE_URL, posts>>))
                    ELSE <<>>
        blogId == split(id, "/")
        slug == IF Len(blogId) > 0 THEN sliceLast(blogId) ELSE blogId
    IN  join(<<basePath, arrayToString(slug)>>, <<"/">>) \o <<"/">>

\* The trailing separator left out.
getPathNoTrailing(id, includeBase) ==
    LET basePath == IF includeBase THEN joinPaths(<<BASE_URL, posts>>) ELSE <<>>
        blogId == split(id, "/")
        slug == IF Len(blogId) > 0 THEN sliceLast(blogId) ELSE blogId
    IN  join(<<basePath, arrayToString(slug)>>, <<"/">>)

\* The id used whole, the split forgotten.
blogIdWhole(id) == <<id>>

\* const blogId = id.split("/")
blogIdOf(id) == split(id, "/")

\* An empty last segment replaced by the nearest non-empty segment before it.
RECURSIVE slugOfNonEmpty(_)
slugOfNonEmpty(blogId) ==
    IF Len(blogId) = 0 THEN blogId
    ELSE IF blogId[Len(blogId)] # <<>> \/ Len(blogId) = 1 THEN sliceLast(blogId)
    ELSE slugOfNonEmpty(SubSeq(blogId, 1, Len(blogId) - 1))

\* const slug = blogId.length > 0 ? blogId.slice(-1) : blogId
slugOf(blogId) == IF Len(blogId) > 0 THEN sliceLast(blogId) ELSE blogId

\* Empty parts dropped before joining, as path.join would.
getPathSkipEmptyBase(id, includeBase) ==
    LET basePath == IF includeBase THEN joinPaths(<<BASE_URL, posts>>) ELSE <<>>
        slug == slugOf(blogIdOf(id))
    IN  (IF basePath = <<>> THEN arrayToString(slug)
         ELSE join(<<basePath, arrayToString(slug)>>, <<"/">>)) \o <<"/">>

getPath(id, includeBase) ==
    LET basePath == IF includeBase THEN joinPaths(<<BASE_URL, posts>>) ELSE <<>>
        slug == slugOf(blogIdOf(id))
    IN  join(<<basePath, arrayToString(slug)>>, <<"/">>) \o <<"/">>

\* The default taken as false.
includeBaseDefaultFalse(args) == IF Len(args) >= 2 THEN args[2] ELSE FALSE

\* The default parameter: includeBase = true when the argument is omitted.
includeBaseOf(args) == IF Len(args) >= 2 THEN args[2] ELSE TRUE

(***************************************************************************)
(* The process: configured once, then any sequence of calls                *)
(***************************************************************************)
Init ==
    /\ BASE_URL \in BasePaths
    /\ last = <<>>
    /\ prev = <<>>

\* The joined base path kept from the previous call instead of recomputed.
CallStale(args) ==
    \E blogId \in {blogIdOf(args[1])} :
    /\ last' = << [ args |-> args,
                    id |-> args[1],
                    includeBase |-> includeBaseOf(args),
                    blogId |-> blogId,
                    slug |-> slugOf(blogId),
                    ret |-> IF last = <<>>
                            THEN getPath(args[1], includeBaseOf(args))
                            ELSE getPath(args[1], last[1].includeBase) ] >>
    /\ prev' = last
    /\ UNCHANGED BASE_URL

\* The base path normalised in place, and the id overwritten by its slug.
CallInPlace(args) ==
    \E blogId \in {blogIdOf(args[1])} :
    /\ last' = << [ args |-> args,
                    id |-> arrayToString(sliceLast(split(args[1], "/"))),
                    includeBase |-> includeBaseOf(args),
                    blogId |-> blogId,
                    slug |-> slugOf(blogId),
                    ret |-> getPath(args[1], includeBaseOf(args)) ] >>
    /\ prev' = last
    /\ BASE_URL' = removeTrailingForwardSlash(BASE_URL)

\* A call that throws MalformedIdentifier when the slug is empty.
CallRejectEmpty(args) ==
    \E blogId \in {blogIdOf(args[1])} :
    /\ arrayToString(slugOf(blogId)) # <<>>
    /\ last' = << [ args |-> args,
                    id |-> args[1],
                    includeBase |-> includeBaseOf(args),
                    blogId |-> blogId,
                    slug |-> slugOf(blogId),
                    ret |-> getPath(args[1], includeBaseOf(args)) ] >>
    /\ prev' = last
    /\ UNCHANGED BASE_URL

\* One call getPath(...args), from entry to return: args is what the caller
\* passed, id and includeBase are the parameters and blogId and slug the
\* locals as they stand at the return.
Call(args) ==
    \E blogId \in {blogIdOf(args[1])} :
    /\ last' = << [ args |-> args,
                    id |-> args[1],
                    includeBase |-> includeBaseOf(args),
                    blogId |-> blogId,
                    slug |-> slugOf(blogId),
                    ret |-> getPath(args[1], includeBaseOf(args)) ] >>
    /\ prev' = last
    /\ UNCHANGED BASE_URL

\* A caller passes the string the previous call returned as the next id.
CallOnResult ==
    /\ last # <<>>
    /\ Call(<<last[1].ret, FALSE>>)

Next ==
    \/ \E args \in ArgLists : Call(args)
    \/ CallOnResult

Spec == Init /\ [][Next]_vars

(***************************************************************************)
(* Vocabulary of the properties                                            *)
(***************************************************************************)
HasSep(s) == \E i \in 1..Len(s) : s[i] = "/"

EndsWithSep(s) == Len(s) > 0 /\ s[Len(s)] = "/"

\* The final '/'-delimited segment of s: what follows its last '/'.
LastSegment(s) ==
    LET seps == {i \in 1..Len(s) : s[i] = "/"}
    IN  IF seps = {} THEN s
        ELSE LET m == CHOOSE i \in seps : \A j \in seps : j <= i
             IN  SubSeq(s, m + 1, Len(s))

\* String.prototype.includes: sub occurs in s as a substring.
Contains(s, sub) ==
    \E i \in 0..(Len(s) - Len(sub)) : SubSeq(s, i + 1, i + Len(sub)) = sub

Called == last # <<>>

CalledTwice == last # <<>> /\ prev # <<>>

\* C1: two calls with the same includeBase whose ids share the final
\* segment return the same string, under every base path.
C1_LastSegmentOnly ==
    CalledTwice =>
        (  /\ prev[1].includeBase = last[1].includeBase
           /\ LastSegment(prev[1].id) = LastSegment(last[1].id)
        => prev[1].ret = last[1].ret )

C1_Witness ==
    /\ CalledTwice
    /\ prev[1].id = post20240101 \o <<"/">> \o mySlug
    /\ last[1].id = <<"a", "/", "b", "/">> \o mySlug
    /\ prev[1].includeBase = last[1].includeBase
    /\ prev[1].ret = last[1].ret

\* C2 as stated: for a non-empty id without '/', getPath(id, true) is
\* base + "/" + "posts" + "/" + id + "/" for every base path.
C2_BaseVerbatim ==
    Called =>
        (  /\ last[1].includeBase
           /\ last[1].id # <<>>
           /\ ~HasSep(last[1].id)
        => last[1].ret = BASE_URL \o <<"/">> \o posts \o <<"/">> \o last[1].id \o <<"/">> )

\* C2 amended: for a non-empty id without '/', getPath(id, true) is the base
\* path, followed by one '/' unless the base path already ends in '/',
\* followed by "posts" + "/" + id + "/".
C2_BaseSingleSep ==
    Called =>
        (  /\ last[1].includeBase
           /\ last[1].id # <<>>
           /\ ~HasSep(last[1].id)
        => last[1].ret =
               (IF EndsWithSep(BASE_URL) THEN BASE_URL ELSE BASE_URL \o <<"/">>)
                   \o posts \o <<"/">> \o last[1].id \o <<"/">> )

C2_Witness ==
    /\ Called
    /\ BASE_URL = <<"/">> \o blog \o <<"/">>
    /\ last[1].args = <<mySlug, TRUE>>
    /\ last[1].ret = <<"/">> \o blog \o <<"/">> \o posts \o <<"/">> \o mySlug \o <<"/">>

\* C3: for a non-empty id without '/', getPath(id, false) is "/" + id + "/",
\* whatever the base path.
C3_NoBase ==
    Called =>
        (  /\ ~last[1].includeBase
           /\ last[1].id # <<>>
           /\ ~HasSep(last[1].id)
        => last[1].ret = <<"/">> \o last[1].id \o <<"/">> )

C3_Witness ==
    /\ Called
    /\ BASE_URL = <<"/">> \o blog
    /\ last[1].args = <<mySlug, FALSE>>
    /\ last[1].ret = <<"/">> \o mySlug \o <<"/">>

\* C4: with base path "", the three scenarios of the specification.
C4_Scenarios ==
    (Called /\ BASE_URL = <<>>) =>
        /\ last[1].args = <<introducingRemoteSweAgents, TRUE>>
             => last[1].ret = <<"/">> \o posts \o <<"/">> \o introducingRemoteSweAgents \o <<"/">>
        /\ last[1].args = <<dir20250402 \o <<"/">> \o introducingRemoteSweAgents, TRUE>>
             => last[1].ret = <<"/">> \o posts \o <<"/">> \o introducingRemoteSweAgents \o <<"/">>
        /\ last[1].args = <<mySlug, FALSE>>
             => last[1].ret = <<"/">> \o mySlug \o <<"/">>

C4_Witness ==
    /\ CalledTwice
    /\ BASE_URL = <<>>
    /\ prev[1].args = <<mySlug, FALSE>>
    /\ last[1].args = <<dir20250402 \o <<"/">> \o introducingRemoteSweAgents, TRUE>>
    /\ last[1].ret = <<"/">> \o posts \o <<"/">> \o introducingRemoteSweAgents \o <<"/">>

\* C5: with base path "blog", getPath("my-slug", true) is
\* "blog/posts/my-slug/", with no separator in front of the base path.
C5_BlogBase ==
    (Called /\ BASE_URL = blog /\ last[1].args = <<mySlug, TRUE>>) =>
        last[1].ret = blog \o <<"/">> \o posts \o <<"/">> \o mySlug \o <<"/">>

C5_Witness ==
    /\ Called
    /\ BASE_URL = blog
    /\ last[1].args = <<mySlug, TRUE>>
    /\ last[1].ret[1] = "b"

\* C6: every returned string ends with '/'.
C6_TrailingSep == Called => EndsWithSep(last[1].ret)

C6_Witness ==
    /\ CalledTwice
    /\ prev[1].id = <<>>
    /\ EndsWithSep(prev[1].ret)
    /\ last[1].id = <<"a", "/">>
    /\ EndsWithSep(last[1].ret)

\* C7: two calls in one process with the same id and includeBase return the
\* same string, whatever was called before them.
C7_Deterministic ==
    CalledTwice =>
        (  /\ prev[1].id = last[1].id
           /\ prev[1].includeBase = last[1].includeBase
        => prev[1].ret = last[1].ret )

C7_Witness ==
    /\ CalledTwice
    /\ prev[1].args = <<post20240101 \o <<"/">> \o mySlug, TRUE>>
    /\ last[1].args = <<post20240101 \o <<"/">> \o mySlug, TRUE>>
    /\ prev[1].ret = last[1].ret

\* C8: no call changes the process-wide base path, and the id parameter
\* still holds the caller's argument when the call returns.
C8_NoSideEffect ==
    [][ /\ BASE_URL' = BASE_URL
        /\ last' # <<>> => last'[1].id = last'[1].args[1] ]_vars

C8_Witness ==
    /\ CalledTwice
    /\ BASE_URL = <<"/">> \o blog \o <<"/">>
    /\ prev[1].includeBase
    /\ last[1].id = <<"a", "/">>

\* C9 as stated: for every base path and every id containing neither the
\* base path nor "posts", getPath(id, false) contains neither.
C9_NoBaseNoSection ==
    Called =>
        (  /\ ~last[1].includeBase
           /\ ~Contains(last[1].id, BASE_URL)
           /\ ~Contains(last[1].id, posts)
        => /\ ~Contains(last[1].ret, BASE_URL)
           /\ ~Contains(last[1].ret, posts) )

\* C9 amended: for every base path and every id containing neither the base
\* path nor "posts", getPath(id, false) does not contain "posts", and does
\* not contain the base path when the base path contains no '/'.
C9_NoSectionNoPlainBase ==
    Called =>
        (  /\ ~last[1].includeBase
           /\ ~Contains(last[1].id, BASE_URL)
           /\ ~Contains(last[1].id, posts)
        => /\ ~Contains(last[1].ret, posts)
           /\ ~HasSep(BASE_URL) => ~Contains(last[1].ret, BASE_URL) )

C9_Witness ==
    /\ Called
    /\ BASE_URL = blog
    /\ last[1].args = <<post20240101 \o <<"/">> \o mySlug, FALSE>>
    /\ ~Contains(last[1].id, blog)
    /\ ~Contains(last[1].ret, blog)

\* C10: two different published (draft: false) items of the content store
\* have different slugs, and getPath gives them different paths.
C10_PublishedSlugsUnique ==
    CalledTwice =>
        \A i, j \in ContentStore :
            (  /\ i # j
               /\ ~i.draft
               /\ ~j.draft
               /\ prev[1].id = ContentId(i)
               /\ last[1].id = ContentId(j)
               /\ prev[1].includeBase = last[1].includeBase
            => /\ LastSegment(prev[1].id) # LastSegment(last[1].id)
               /\ prev[1].ret # last[1].ret )

\* The characters of a string.
Chars(s) == {s[i] : i \in 1..Len(s)}

\* The number of '/' in s.
SepCount(s) == Cardinality({i \in 1..Len(s) : s[i] = "/"})

\* s without its last character when that is '/'.
WithoutTrailingSep(s) == IF EndsWithSep(s) THEN SubSeq(s, 1, Len(s) - 1) ELSE s

AtMostOneTrailingSep(s) == ~(Len(s) >= 2 /\ s[Len(s)] = "/" /\ s[Len(s) - 1] = "/")

\* C11: a call with the second argument omitted returns the same string as
\* the call with the same id and includeBase = true.
C11_DefaultTrue ==
    CalledTwice =>
        /\ (  /\ prev[1].args = <<last[1].args[1]>>
              /\ last[1].args = <<prev[1].args[1], TRUE>>
           => prev[1].ret = last[1].ret )
        /\ (  /\ last[1].args = <<prev[1].args[1]>>
              /\ prev[1].args = <<last[1].args[1], TRUE>>
           => prev[1].ret = last[1].ret )

C11_Witness ==
    /\ CalledTwice
    /\ prev[1].args = <<mySlug>>
    /\ last[1].args = <<mySlug, TRUE>>
    /\ prev[1].ret = last[1].ret
    /\ Contains(prev[1].ret, posts)

\* C12: with includeBase true, a base path with at most one trailing '/' and
\* an id whose final segment is non-empty, the output has no two consecutive
\* '/' and is the base path without its trailing '/', "/", "posts", "/", the
\* final segment, "/": base paths differing by one trailing '/' give the
\* same output.
C12_SingleSeparators ==
    Called =>
        (  /\ last[1].includeBase
           /\ AtMostOneTrailingSep(BASE_URL)
           /\ LastSegment(last[1].id) # <<>>
        => /\ ~Contains(last[1].ret, <<"/", "/">>)
           /\ last[1].ret = WithoutTrailingSep(BASE_URL) \o <<"/">> \o posts
                                \o <<"/">> \o LastSegment(last[1].id) \o <<"/">> )

C12_Witness ==
    /\ Called
    /\ BASE_URL = <<"/">> \o blog \o <<"/">>
    /\ last[1].args = <<post20240101 \o <<"/">> \o mySlug, TRUE>>
    /\ last[1].ret = <<"/">> \o blog \o <<"/">> \o posts \o <<"/">> \o mySlug \o <<"/">>

\* C13: when the final segment of id is empty, the slug is empty:
\* getPath(id, false) is "//" and getPath(id, true) is the joined base path
\* and "posts" followed by "//".
C13_EmptySlug ==
    Called =>
        (  LastSegment(last[1].id) = <<>>
        => /\ ~last[1].includeBase => last[1].ret = <<"/", "/">>
           /\ last[1].includeBase =>
                  last[1].ret = WithoutTrailingSep(BASE_URL) \o <<"/">> \o posts
                                    \o <<"/", "/">> )

C13_Witness ==
    /\ CalledTwice
    /\ prev[1].args = <<<<"a", "/">>, FALSE>>
    /\ prev[1].ret = <<"/", "/">>
    /\ last[1].args = <<<<>>, TRUE>>
    /\ BASE_URL = blog
    /\ last[1].ret = blog \o <<"/">> \o posts \o <<"/", "/">>

\* C14: getPath is total: under every base path the call is possible for
\* every argument list (it is checked where the process starts, a call
\* reading nothing that earlier calls leave behind), and every completed call
\* returned a string made of characters of the base path, of "posts", of the
\* id and of '/' (no error value).
C14_Total ==
    /\ last = <<>> => \A args \in ArgLists : ENABLED Call(args)
    /\ Called =>
           /\ Len(last[1].ret) >= 2
           /\ Chars(last[1].ret) \subseteq
                  Chars(BASE_URL) \cup Chars(posts) \cup Chars(last[1].id) \cup {"/"}

C14_Witness ==
    /\ CalledTwice
    /\ prev[1].args = <<<<>>, FALSE>>
    /\ prev[1].ret = <<"/", "/">>
    /\ last[1].args = <<<<"/", "/">>>>
    /\ Len(last[1].ret) >= 2

\* C15: under one base path and one includeBase, two ids whose final
\* segments differ give different outputs.
C15_InjectiveOnSlug ==
    CalledTwice =>
        (  /\ prev[1].includeBase = last[1].includeBase
           /\ LastSegment(prev[1].id) # LastSegment(last[1].id)
        => prev[1].ret # last[1].ret )

C15_Witness ==
    /\ CalledTwice
    /\ prev[1].args = <<<<"a", "/">>, TRUE>>
    /\ last[1].args = <<<<"a">>, TRUE>>
    /\ prev[1].ret # last[1].ret

\* C16: for one id, getPath(id, true) is joinPaths(BASE_URL, "posts")
\* followed by getPath(id, false).
C16_PrefixOnly ==
    CalledTwice =>
        /\ (  /\ prev[1].id = last[1].id
              /\ ~prev[1].includeBase
              /\ last[1].includeBase
           => last[1].ret = joinPaths(<<BASE_URL, posts>>) \o prev[1].ret )
        /\ (  /\ prev[1].id = last[1].id
              /\ prev[1].includeBase
              /\ ~last[1].includeBase
           => prev[1].ret = joinPaths(<<BASE_URL, posts>>) \o last[1].ret )

C16_Witness ==
    /\ CalledTwice
    /\ BASE_URL = <<"/">> \o blog \o <<"/">>
    /\ prev[1].args = <<post20240101 \o <<"/">> \o mySlug, FALSE>>
    /\ last[1].args = <<post20240101 \o <<"/">> \o mySlug, TRUE>>
    /\ last[1].ret = <<"/">> \o blog \o <<"/">> \o posts \o prev[1].ret

\* C17: getPath(id, false) contains exactly two '/', its first and its last
\* character.
C17_TwoSeparators ==
    Called =>
        (  ~last[1].includeBase
        => /\ SepCount(last[1].ret) = 2
           /\ Len(last[1].ret) >= 2
           /\ last[1].ret[1] = "/"
           /\ last[1].ret[Len(last[1].ret)] = "/" )

C17_Witness ==
    /\ Called
    /\ last[1].args = <<<<"a", "/", "b", "/">> \o mySlug, FALSE>>
    /\ SepCount(last[1].id) = 2
    /\ last[1].ret = <<"/">> \o mySlug \o <<"/">>

\* C18: getPath called with includeBase false on the string a call returned
\* gives "//", which differs from what getPath(id, false) returned when the
\* final segment of id is non-empty.
C18_NotFixpoint ==
    CalledTwice =>
        (  /\ last[1].id = prev[1].ret
           /\ ~last[1].includeBase
        => /\ last[1].ret = <<"/", "/">>
           /\ (~prev[1].includeBase /\ LastSegment(prev[1].id) # <<>>)
                  => last[1].ret # prev[1].ret )

C18_Witness ==
    /\ CalledTwice
    /\ prev[1].args = <<post20240101 \o <<"/">> \o mySlug, FALSE>>
    /\ last[1].id = prev[1].ret
    /\ ~last[1].includeBase
    /\ last[1].ret = <<"/", "/">>
    /\ last[1].ret # prev[1].ret

\* C19: splitting the id yields one more segment than the id has '/', so at
\* least one; the guard blogId.length > 0 holds at every call and the slug
\* is the array of exactly the last segment.
C19_GuardAlwaysTrue ==
    Called =>
        /\ Len(last[1].blogId) = SepCount(last[1].id) + 1
        /\ Len(last[1].blogId) > 0
        /\ Len(last[1].slug) = 1
        /\ last[1].slug = <<last[1].blogId[Len(last[1].blogId)]>>

C19_Witness ==
    /\ CalledTwice
    /\ prev[1].id = <<>>
    /\ Len(prev[1].blogId) = 1
    /\ prev[1].slug = <<<<>>>>
    /\ last[1].id = <<"a", "/", "b", "/">> \o mySlug
    /\ Len(last[1].blogId) = 3

====
